---- MODULE Spec2Model ----
(***************************************************************************)
(* rampedpyrox: the isotope deconvolution engine (core/isotoperesult.py)   *)
(* and the length assertion helper (core/core_functions.py).               *)
(*                                                                         *)
(* Units.  Every number of the model is an integer:                        *)
(*   time      seconds                                                     *)
(*   mass      the blank mass of one second (bl_flux ug), so that          *)
(*             bl_mass = bl_flux*dt = dt                                   *)
(*   d13C      per mille                                                   *)
(*   R13       Rpdb/1000, so that R13 = (d13C/1000 + 1)*Rpdb is d13C+1000  *)
(*   Fm        1/1000                                                      *)
(* A quotient is the pair <<numerator, denominator>>, never reduced; a     *)
(* denominator of 0 is numpy's non-finite result (inf or nan).             *)
(* np.gradient is modelled doubled (Grad2), which keeps it an integer.     *)
(* Array indices are numpy's: 0-based.                                     *)
(***************************************************************************)
EXTENDS Integers, Sequences, FiniteSets, TLC

VARIABLES
  inp,            \* the arguments of IsotopeResult(...)
  pc,             \* position of the constructor
  exc,            \* the exception the constructor raised, or "none"
  run,            \* 1: first construction, 2: second one on the same arguments
  prev,           \* what the first construction produced
  lsq_memo,       \* least_squares is a function: its verdict on arguments seen
  t0_frac, tf_frac, mass_frac, R13_frac, Fm_frac,
  err,            \* the noise added by _extract_isotopes
  tot, peaks,     \* _calc_cont_ptf: evolution rates, combined and per peak
  ind,            \* _calc_cont_ptf: np.where's result, per fraction done
  cont_ptf, ind_min, ind_max, ind_wgh,
  mass_rmse, d13C_peak, d13C_rmse, Fm_peak, Fm_rmse,
  res_success,    \* <<>> before the fit, <<res.success>> after it
  warned,         \* warnings.warn was called
  fraction_info, peak_info, RMSEs,   \* the attributes set on self
  al_data, al_n, al_pc, al_out,      \* assert_len(data, n): arguments, result
  lc_args,        \* calc_L_curve(model, timedata, ...): what the caller passed
  lc_pc,          \* position of calc_L_curve
  lc_recv,        \* <<>>, then <<what model.calc_L_curve was called with>>
  lc_ret          \* <<>>, then <<what calc_L_curve returned>>

extr == <<t0_frac, tf_frac, mass_frac, R13_frac, Fm_frac, err>>
cont == <<tot, peaks, ind, cont_ptf, ind_min, ind_max, ind_wgh>>
fits == <<mass_rmse, d13C_peak, d13C_rmse, Fm_peak, Fm_rmse, res_success, warned>>
self == <<fraction_info, peak_info, RMSEs>>
ctl == <<inp, run, prev, lsq_memo>>
alv == <<al_data, al_n, al_pc, al_out>>
lcv == <<lc_args, lc_pc, lc_recv, lc_ret>>
vars == <<pc, exc, ctl, extr, cont, fits, self, alv, lcv>>

-----------------------------------------------------------------------------
(* Bounds of the model *)

\* rows of the measurement table, the two sentinel rows included
MaxRows == 4
\* length of the forward model's time grid
NT == 4
\* peaks merged upstream: len(ec.rel_area) - number of columns of ec.peaks
MaxMerged == 2
\* assert_len: length of data, and n
MaxLen == 3

(* Program constants *)

\* TimedeltaIndex.seconds is the seconds component of a timedelta, 0..86399
SecsPerDay == 86400
\* bl_flux, in mass units
bl_flux == 1
\* bl_Fm = 0.555
bl_Fm == 555
\* bl_d13C = -29.0
bl_d13C == -29
\* Rpdb, in R13 units
Rpdb == 1000

-----------------------------------------------------------------------------
(* Arithmetic helpers *)

RECURSIVE SumSeq(_)
SumSeq(s) == IF s = <<>> THEN 0 ELSE Head(s) + SumSeq(Tail(s))

Range(s) == {s[i] : i \in DOMAIN s}

\* s[ix] for an index array ix of 0-based indices
Take(s, ix) == [j \in 1..Len(ix) |-> s[ix[j] + 1]]

\* np.round(num/den): to the nearest integer, halves to the even one
RoundHalfEven(num, den) ==
  LET n == IF den < 0 THEN -num ELSE num
      d == IF den < 0 THEN -den ELSE den
      q == n \div d
      r == n % d
  IN  IF 2 * r < d THEN q
      ELSE IF 2 * r > d THEN q + 1
      ELSE IF q % 2 = 0 THEN q ELSE q + 1

\* 2 * np.gradient(g): central differences inside, one-sided at both ends
Grad2(g) ==
  LET n == Len(g)
  IN  [k \in 1..n |->
         IF k = 1 THEN 2 * (g[2] - g[1])
         ELSE IF k = n THEN 2 * (g[n] - g[n - 1])
         ELSE g[k + 1] - g[k - 1]]

\* np.inner(A, v) for a matrix A (a sequence of rows) and a vector v
Inner(A, v) ==
  [k \in 1..Len(A) |-> SumSeq([e \in 1..Len(v) |-> A[k][e] * v[e]])]

\* column p of a matrix
Column(M, p) == [e \in 1..Len(M) |-> M[e][p]]

_d13C_to_R13(d13C) == ((d13C + 1000) * Rpdb) \div 1000

\* on a quotient <<n, d>> of R13 units: (R13/Rpdb - 1)*1000
_R13_to_d13C(R13) == <<(R13[1] * 1000) \div Rpdb - 1000 * R13[2], R13[2]>>

-----------------------------------------------------------------------------
(* The arguments of IsotopeResult(sum_data, lt, ec, blank_correct,         *)
(* mass_rsd, add_noise)                                                    *)

Required == {"fraction", "d13C", "d13C_std", "Fm", "Fm_std", "ug_frac"}

\* sum_data: a path string (read into a table), a table, or something else
Kinds == {"DataFrame", "str", "other"}

Table(kind, columns, index_dt, rows) ==
  [kind |-> kind, columns |-> columns, index_dt |-> index_dt, rows |-> rows]

Row(time, fraction, ug, std) ==
  [time |-> time, fraction |-> fraction, ug_frac |-> ug,
   d13C |-> -25, d13C_std |-> std, Fm |-> 900, Fm_std |-> std]

\* a run sampled at 0 s, 1 s, 3 s, 5 s, ...: fractions (1,3], (3,5], ...
BaseTime(i) == IF i = 1 THEN 0 ELSE 2 * i - 3

BaseRows(N) == [i \in 1..N |-> Row(BaseTime(i), i - 2, 4, 0)]

\* the forward model: time grid 2, 3, 4, ... and a decaying operator
BaseGrid == [k \in 1..NT |-> k + 1]

EPoints == {1, 2}

NE == Cardinality(EPoints)

BaseA == [k \in 1..NT |-> [e \in 1..NE |-> (NT - k) * (NT - k + e)]]

Lt(t, A) == [t |-> t, A |-> A]

BaseLt == Lt(BaseGrid, BaseA)

\* the peak set: peaks is nE x nPeak, rel_area has one entry per original peak
Ec(pk, phi_hat, nTot) ==
  [peaks |-> pk, phi_hat |-> phi_hat, rel_area |-> [j \in 1..nTot |-> j]]

SumPeaks(pk) == [e \in 1..Len(pk) |-> SumSeq(pk[e])]

BasePeaks(nPeak) == [e \in 1..NE |-> [p \in 1..nPeak |-> IF p = e THEN 2 ELSE 1]]

BaseEc(nPeak, merged) ==
  Ec(BasePeaks(nPeak), SumPeaks(BasePeaks(nPeak)), nPeak + merged)

MkInp(sd, lt, ec, bc, rsd, an) ==
  [sum_data |-> sd, lt |-> lt, ec |-> ec,
   blank_correct |-> bc, mass_rsd |-> rsd, add_noise |-> an]

(* The inputs explored: a union of families, each varying one part of the  *)
(* arguments around a well-formed run.                                     *)

LabelPairs == {<<-1, 0>>, <<0, 1>>, <<-1, 1>>}

Relabel(rows, l) ==
  [i \in 1..Len(rows) |->
     IF i <= 2 THEN [rows[i] EXCEPT !.fraction = l[i]] ELSE rows[i]]

\* the shape of the table: its type, columns, index type and sentinel labels
FamTable ==
  {MkInp(Table(k, c, ix, Relabel(BaseRows(3), l)), BaseLt, BaseEc(1, 0),
         FALSE, 0, an) :
     k \in Kinds, c \in SUBSET Required, ix \in BOOLEAN,
     l \in LabelPairs, an \in BOOLEAN}

TimePool == {0, 1, 3, 5, SecsPerDay + 3}

Retime(ts) == [i \in 1..Len(ts) |-> Row(ts[i], i - 2, 4, 0)]

\* the timestamps of the rows, and how many rows there are
FamTimes ==
  {MkInp(Table("DataFrame", Required, TRUE, Retime(ts)), BaseLt, BaseEc(1, 0),
         FALSE, 0, FALSE) :
     ts \in UNION {[1..N -> TimePool] : N \in 0..MaxRows}}

GridTimes == {1, 3, 4, 5}

\* the time grid of the forward model
FamGrid ==
  {MkInp(Table("DataFrame", Required, TRUE, BaseRows(4)), Lt(tg, BaseA),
         BaseEc(2, 0), FALSE, 0, FALSE) :
     tg \in [1..NT -> GridTimes]}

AVals == {0, 1}

\* the operator of the forward model
FamCurves ==
  {MkInp(Table("DataFrame", Required, TRUE, BaseRows(4)), Lt(BaseGrid, A),
         BaseEc(2, 0), FALSE, 0, FALSE) :
     A \in [1..NT -> [1..NE -> AVals]]}

PhiVals == {0, 1, 2}

\* the peak curves, and a combined curve that is or is not their sum
FamPeaks ==
  {MkInp(Table("DataFrame", Required, TRUE, BaseRows(4)), BaseLt,
         Ec(pk, phi, Len(pk[1])), FALSE, 0, FALSE) :
     pk \in UNION {[1..NE -> [1..nP -> PhiVals]] : nP \in 1..2},
     phi \in [1..NE -> PhiVals]}

\* the number of peaks, of peaks merged upstream, and of fractions
FamMerged ==
  {MkInp(Table("DataFrame", Required, ix, BaseRows(N)), BaseLt,
         BaseEc(nP, m), bc, 0, FALSE) :
     N \in 3..MaxRows, nP \in 1..3, m \in 0..MaxMerged, bc \in BOOLEAN,
     ix \in BOOLEAN}

MassPool == {2, 4}

\* the flags, the measured mass and the reported uncertainties
FamNoise ==
  {MkInp(Table(k, Required, TRUE,
               [i \in 1..3 |-> Row(BaseTime(i), i - 2, ug, std)]),
         BaseLt, BaseEc(1, 0), bc, rsd, an) :
     k \in {"DataFrame", "str"}, ug \in MassPool, std \in {0, 1},
     bc \in BOOLEAN, rsd \in {0, 1}, an \in BOOLEAN}

Inputs ==
  FamTable \cup FamTimes \cup FamGrid \cup FamCurves \cup FamPeaks
    \cup FamMerged \cup FamNoise

-----------------------------------------------------------------------------
(* IsotopeResult.__init__: the steps of the constructor, in source order    *)

\* self.fraction_info assigned before the table is checked
PipelineStoreFirst ==
  <<"store_frac", "extract", "blank", "cont_setup", "cont_loop", "mass",
    "fit_R13", "fit_Fm", "store_peak", "store_rmse">>

Pipeline ==
  <<"extract", "blank", "store_frac", "cont_setup", "cont_loop", "mass",
    "fit_R13", "fit_Fm", "store_peak", "store_rmse">>

\* the step that follows `stage`; after the last one the constructor returns
After(stage) ==
  LET k == CHOOSE j \in 1..Len(Pipeline) : Pipeline[j] = stage
  IN  IF k = Len(Pipeline) THEN "done" ELSE Pipeline[k + 1]

\* an exception leaves the constructor: nothing more is assigned
Raise(e) == pc' = "raised" /\ exc' = e

IdleAL ==
  /\ al_pc = "idle"
  /\ al_data = [kind |-> "int", val |-> [ty |-> "int", v2 |-> 0], items |-> <<>>]
  /\ al_n = [ty |-> "int", v2 |-> 0]
  /\ al_out = [status |-> "none", array |-> <<>>]

IdleLC ==
  /\ lc_pc = "idle"
  /\ lc_args = <<>>
  /\ lc_recv = <<>>
  /\ lc_ret = <<>>

\* a constructor about to run: no local is bound, no attribute is set
Fresh ==
  /\ pc = Pipeline[1]
  /\ exc = "none"
  /\ t0_frac = <<>> /\ tf_frac = <<>> /\ mass_frac = <<>>
  /\ R13_frac = <<>> /\ Fm_frac = <<>> /\ err = <<>>
  /\ tot = <<>> /\ peaks = <<>> /\ ind = <<>> /\ cont_ptf = <<>>
  /\ ind_min = <<>> /\ ind_max = <<>> /\ ind_wgh = <<>>
  /\ mass_rmse = <<>> /\ d13C_peak = <<>> /\ d13C_rmse = <<>>
  /\ Fm_peak = <<>> /\ Fm_rmse = <<>> /\ res_success = <<>>
  /\ warned = FALSE
  /\ fraction_info = <<>> /\ peak_info = <<>> /\ RMSEs = <<>>

Init ==
  /\ inp \in Inputs
  /\ run = 1
  /\ prev = <<>>
  /\ lsq_memo = <<>>
  /\ Fresh
  /\ IdleAL
  /\ IdleLC

(* _extract_isotopes *)

\* Python's truth value of a string
Truthy(str) == str # ""

\* 'fraction' and 'd13C' and 'd13C_std' and 'Fm' and 'Fm_std' and
\*   'ug_frac' not in sum_data.columns
ColumnCheckFails(columns) ==
  /\ Truthy("fraction") /\ Truthy("d13C") /\ Truthy("d13C_std")
  /\ Truthy("Fm") /\ Truthy("Fm_std")
  /\ "ug_frac" \notin columns

\* sum_data.fraction[0] != -1 or sum_data.fraction[1] != 0, on the rows there are
SentinelCheck(rows) ==
  IF Len(rows) = 0 THEN "IndexError: fraction"
  ELSE IF rows[1].fraction # -1 THEN "ValueError: sentinel rows"
  ELSE IF Len(rows) = 1 THEN "IndexError: fraction"
  ELSE IF rows[2].fraction # 0 THEN "ValueError: sentinel rows"
  ELSE "none"

\* the columns read as attributes of the table after the checks
ColumnsRead(add_noise) ==
  {"ug_frac", "d13C", "Fm"} \cup (IF add_noise THEN {"d13C_std", "Fm_std"} ELSE {})

\* the exceptions that leave _extract_isotopes
ExtractErrors ==
  {"ValueError: sum_data type", "ValueError: columns", "ValueError: index",
   "ValueError: sentinel rows", "AttributeError", "IndexError: fraction"}

\* the exception _extract_isotopes raises on sum_data, or "none"
ExtractError(sd, add_noise) ==
  IF sd.kind \notin {"str", "DataFrame"} THEN "ValueError: sum_data type"
  ELSE IF ColumnCheckFails(sd.columns) THEN "ValueError: columns"
  ELSE IF ~sd.index_dt THEN "ValueError: index"
  ELSE IF "fraction" \notin sd.columns THEN "AttributeError"
  ELSE IF SentinelCheck(sd.rows) # "none" THEN SentinelCheck(sd.rows)
  ELSE IF ~(ColumnsRead(add_noise) \subseteq sd.columns) THEN "AttributeError"
  ELSE "none"

\* (sum_data.index - sum_data.index[0]).seconds
Secs(rows) ==
  [i \in 1..Len(rows) |-> (rows[i].time - rows[1].time) % SecsPerDay]

\* the reported uncertainties used whatever add_noise says
SigsAlways(rows, mass_rsd, add_noise) ==
  [i \in 1..(Len(rows) - 2) |->
     <<rows[i + 2].ug_frac * mass_rsd, rows[i + 2].d13C_std, rows[i + 2].Fm_std>>]

\* sigs: per fraction, the standard deviations of mass, d13C and Fm
Sigs(rows, mass_rsd, add_noise) ==
  [i \in 1..(Len(rows) - 2) |->
     IF add_noise
       THEN <<rows[i + 2].ug_frac * mass_rsd, rows[i + 2].d13C_std,
              rows[i + 2].Fm_std>>
       ELSE <<0, 0, 0>>]

\* values np.random.randn may draw
DrawVals == {-1, 0, 1}

\* every np.random.randn(nF,3)*sigs: each entry a draw times its sigma
ErrSet(sigs) ==
  LET vals == {z * sigs[i][j] : z \in DrawVals, i \in 1..Len(sigs), j \in 1..3}
  IN  {e \in [1..Len(sigs) -> [1..3 -> vals]] :
         \A i \in 1..Len(sigs) : \A j \in 1..3 :
           \E z \in DrawVals : e[i][j] = z * sigs[i][j]}

ExtractIsotopes ==
  /\ pc = "extract"
  /\ LET sd == inp.sum_data
         e == ExtractError(sd, inp.add_noise)
     IN  IF e # "none"
           THEN Raise(e) /\ UNCHANGED extr
           ELSE LET rows == sd.rows
                    nF == Len(rows) - 2
                    secs == Secs(rows)
                IN  \E er \in ErrSet(Sigs(rows, inp.mass_rsd, inp.add_noise)) :
                      /\ err' = er
                      /\ t0_frac' = [i \in 1..nF |-> secs[i + 1]]
                      /\ tf_frac' = [i \in 1..nF |-> secs[i + 2]]
                      /\ mass_frac' = [i \in 1..nF |-> rows[i + 2].ug_frac + er[i][1]]
                      /\ R13_frac' =
                           [i \in 1..nF |->
                              <<_d13C_to_R13(rows[i + 2].d13C + er[i][2]), 1>>]
                      /\ Fm_frac' = [i \in 1..nF |-> <<rows[i + 2].Fm + er[i][3], 1>>]
                      /\ pc' = After("extract")
                      /\ exc' = exc
  /\ UNCHANGED <<ctl, cont, fits, self, alv, lcv>>

(* _blank_correct *)

\* (mass*x - bl_mass*bl_x)/mass_corr for a quotient x
BlankMix(mass, x, bl_mass, bl_x) ==
  <<mass * x[1] - bl_mass * bl_x * x[2], x[2] * (mass - bl_mass)>>

BlankCorrect ==
  /\ pc = "blank"
  /\ IF inp.blank_correct
       THEN LET nF == Len(t0_frac)
                bl_R13 == _d13C_to_R13(bl_d13C)
                bl_mass == [i \in 1..nF |-> bl_flux * (tf_frac[i] - t0_frac[i])]
            IN  /\ mass_frac' = [i \in 1..nF |-> mass_frac[i] - bl_mass[i]]
                /\ R13_frac' =
                     [i \in 1..nF |->
                        BlankMix(mass_frac[i], R13_frac[i], bl_mass[i], bl_R13)]
                /\ Fm_frac' =
                     [i \in 1..nF |->
                        BlankMix(mass_frac[i], Fm_frac[i], bl_mass[i], bl_Fm)]
       ELSE UNCHANGED <<mass_frac, R13_frac, Fm_frac>>
  /\ pc' = After("blank")
  /\ UNCHANGED <<exc, ctl, t0_frac, tf_frac, err, cont, fits, self, alv, lcv>>

\* frac_info, and self.fraction_info = frac_info
StoreFractionInfo ==
  /\ pc = "store_frac"
  /\ fraction_info' =
       <<[t0 |-> t0_frac, tf |-> tf_frac, mass |-> mass_frac,
          d13C |-> [i \in 1..Len(R13_frac) |-> _R13_to_d13C(R13_frac[i])],
          Fm |-> Fm_frac]>>
  /\ pc' = After("store_frac")
  /\ UNCHANGED <<exc, ctl, extr, cont, fits, peak_info, RMSEs, alv, lcv>>

(* _calc_cont_ptf *)

\* the comparison turned around
UnderConstrainedSwapped(nPeak, nFrac) == nPeak < nFrac

\* if nPeak > nFrac: raise ValueError
UnderConstrained(nPeak, nFrac) == nPeak > nFrac

\* number of columns of ec.peaks
NPeak(ec) == Len(ec.peaks[1])

\* tot = -np.gradient(np.inner(lt.A, ec.phi_hat)), doubled
Tot(lt, ec) ==
  LET d == Grad2(Inner(lt.A, ec.phi_hat))
  IN  [k \in 1..Len(d) |-> -d[k]]

\* peaks = -np.gradient(np.inner(lt.A, ec.peaks.T), axis=0), doubled
PeakRates(lt, ec) ==
  [k \in 1..Len(lt.A) |->
     [p \in 1..NPeak(ec) |-> -Grad2(Inner(lt.A, Column(ec.peaks, p)))[k]]]

CalcContPtfSetup ==
  /\ pc = "cont_setup"
  /\ IF UnderConstrained(NPeak(inp.ec), Len(t0_frac))
       THEN Raise("ValueError: under constrained") /\ UNCHANGED <<tot, peaks>>
       ELSE /\ tot' = Tot(inp.lt, inp.ec)
            /\ peaks' = PeakRates(inp.lt, inp.ec)
            /\ pc' = After("cont_setup")
            /\ exc' = exc
  /\ UNCHANGED <<ctl, extr, ind, cont_ptf, ind_min, ind_max, ind_wgh, fits,
                 self, alv, lcv>>

\* a window closed on the left too
InWindowClosed(tk, t0, tf) == tk >= t0 /\ tk <= tf

\* (t_tg > row[0]) & (t_tg <= row[1]), at one grid time
InWindow(tk, t0, tf) == tk > t0 /\ tk <= tf

\* np.where(...)[0]: the 0-based indices that pass, in ascending order
Where(t_tg, t0, tf) ==
  SelectSeq([k \in 1..Len(t_tg) |-> k - 1],
            LAMBDA k : InWindow(t_tg[k + 1], t0, tf))

\* the divisor summed over the whole grid: np.sum(tot)
PtfRowWholeGrid(pk, tt, sel) ==
  [p \in 1..Len(pk[1]) |->
     <<SumSeq([j \in 1..Len(sel) |-> pk[sel[j] + 1][p]]), SumSeq(tt)>>]

\* np.sum(peaks[ind],axis=0)/np.sum(tot[ind]): one quotient per peak
PtfRow(pk, tt, sel) ==
  [p \in 1..Len(pk[1]) |->
     <<SumSeq([j \in 1..Len(sel) |-> pk[sel[j] + 1][p]]), SumSeq(Take(tt, sel))>>]

\* int(np.round(np.average(ind, weights=tot[ind])))
\* the weighted sum of the indices, not divided by the sum of the weights
WeightedIndexUnnormalised(tt, sel) ==
  RoundHalfEven(SumSeq([j \in 1..Len(sel) |-> sel[j] * tt[sel[j] + 1]]), 1)

WeightedIndex(tt, sel) ==
  RoundHalfEven(SumSeq([j \in 1..Len(sel) |-> sel[j] * tt[sel[j] + 1]]),
                SumSeq(Take(tt, sel)))

\* one pass of the loop over the fractions
CalcContPtfLoop ==
  /\ pc = "cont_loop"
  /\ LET i == Len(ind) + 1
         sel == Where(inp.lt.t, t0_frac[i], tf_frac[i])
     IN  IF sel = <<>>
           THEN Raise("IndexError: empty window") /\ UNCHANGED cont
           ELSE IF SumSeq(Take(tot, sel)) = 0
             THEN Raise("ZeroDivisionError") /\ UNCHANGED cont
             ELSE /\ ind' = Append(ind, sel)
                  /\ ind_min' = Append(ind_min, sel[1])
                  /\ ind_max' = Append(ind_max, sel[Len(sel)])
                  /\ ind_wgh' = Append(ind_wgh, WeightedIndex(tot, sel))
                  /\ cont_ptf' = Append(cont_ptf, PtfRow(peaks, tot, sel))
                  /\ pc' = IF i = Len(t0_frac) THEN After("cont_loop") ELSE pc
                  /\ UNCHANGED <<exc, tot, peaks>>
  /\ UNCHANGED <<ctl, extr, fits, self, alv, lcv>>

(* predicted mass of each fraction and its RMSE *)

\* np.sum(tg[imi:ima+1])*ugC, doubled
MassPred(tg, imi, ima, ugC) ==
  SumSeq([k \in 1..(ima - imi + 1) |-> tg[imi + k]]) * ugC

\* norm(mass_frac_pred - mass_frac)/(nFrac**0.5): the quotient under the root
MassRMSE ==
  /\ pc = "mass"
  /\ LET ugC == SumSeq(mass_frac)
         tg == Tot(inp.lt, inp.ec)
         nFrac == Len(t0_frac)
         d == [i \in 1..nFrac |->
                 MassPred(tg, ind_min[i], ind_max[i], ugC) - 2 * mass_frac[i]]
     IN  mass_rmse' = <<<<SumSeq([i \in 1..nFrac |-> d[i] * d[i]]), 4 * nFrac>>>>
  /\ pc' = After("mass")
  /\ UNCHANGED <<exc, ctl, extr, cont, d13C_peak, d13C_rmse, Fm_peak, Fm_rmse,
                 res_success, warned, self, alv, lcv>>

(* _fit_R13_peak *)

\* gdot_hat_12 of _calc_R13_CO2 is not finite at 0-based index k: a zero
\* gradient of the 12C curve or of the time grid makes R13_CO2[k] inf or nan
RatioNotFinite(lt, ec, k) ==
  \/ Grad2(Inner(lt.A, SumPeaks(ec.peaks)))[k + 1] = 0
  \/ Grad2(lt.t)[k + 1] = 0

\* R13_CO2[ind_wgh]: a negative index counts from the end
Wrap(k, nT) == IF k < 0 THEN k + nT ELSE k

\* the first evaluation of _R13_diff by least_squares
FirstResidual(lt, ec, R13, wgh) ==
  LET nT == Len(lt.A)
  IN  IF \E i \in 1..Len(wgh) : wgh[i] < -nT \/ wgh[i] >= nT
        THEN "IndexError: ind_wgh"
      ELSE IF \E i \in 1..Len(wgh) :
                R13[i][2] = 0 \/ RatioNotFinite(lt, ec, Wrap(wgh[i], nT))
        THEN "ValueError: residuals not finite"
      ELSE "none"

\* a failed fit made fatal
OnFitResultStrict(success) == IF success THEN "ok" ELSE "raise"

\* if not res.success: warnings.warn(...)
OnFitResult(success) == IF success THEN "ok" ELSE "warn"

\* what least_squares answered on these arguments before, if it did
Answers(args) ==
  IF lsq_memo # <<>> /\ lsq_memo[1].args = args
    THEN {lsq_memo[1].success}
    ELSE BOOLEAN

FitR13Peak ==
  /\ pc = "fit_R13"
  /\ LET args == <<R13_frac, ind_wgh>>
         first == FirstResidual(inp.lt, inp.ec, R13_frac, ind_wgh)
     IN  IF first # "none"
           THEN /\ Raise(first)
                /\ UNCHANGED <<d13C_peak, d13C_rmse, res_success, warned, lsq_memo>>
           ELSE \E success \in Answers(args) :
                  /\ lsq_memo' = <<[args |-> args, success |-> success]>>
                  /\ res_success' = <<success>>
                  /\ IF OnFitResult(success) = "raise"
                       THEN /\ Raise("RuntimeError")
                            /\ UNCHANGED <<d13C_peak, d13C_rmse, warned>>
                       ELSE /\ warned' = (warned \/ OnFitResult(success) = "warn")
                            /\ d13C_peak' =
                                 [p \in 1..NPeak(inp.ec) |->
                                    [fit |-> "least_squares", peak |-> p,
                                     args |-> args]]
                            /\ d13C_rmse' =
                                 <<[fit |-> "least_squares", args |-> args]>>
                            /\ pc' = After("fit_R13")
                            /\ exc' = exc
  /\ UNCHANGED <<inp, run, prev, extr, cont, mass_rmse, Fm_peak, Fm_rmse, self,
                 alv, lcv>>

(* Fm regression: nnls(cont_ptf, Fm_frac) *)

FmRegression ==
  /\ pc = "fit_Fm"
  /\ LET args == <<cont_ptf, Fm_frac>>
     IN  /\ Fm_peak' =
              [p \in 1..NPeak(inp.ec) |->
                 [fit |-> "nnls", peak |-> p, args |-> args]]
         /\ Fm_rmse' = <<[fit |-> "nnls", args |-> args]>>
  /\ pc' = After("fit_Fm")
  /\ UNCHANGED <<exc, ctl, extr, cont, mass_rmse, d13C_peak, d13C_rmse,
                 res_success, warned, self, alv, lcv>>

(* the per-peak table *)

\* the first peak repeated: x[0] for x[-1]
RepeatFirst(x, nP_tot, nP_comb) ==
  [j \in 1..nP_tot |-> IF j <= nP_comb THEN x[j] ELSE x[1]]

\* np.append(x, x[-1]*np.ones(nP_tot - nP_comb))
RepeatCombined(x, nP_tot, nP_comb) ==
  [j \in 1..nP_tot |-> IF j <= nP_comb THEN x[j] ELSE x[Len(x)]]

StorePeakInfo ==
  /\ pc = "store_peak"
  /\ LET ugC == SumSeq(mass_frac)
         nP_tot == Len(inp.ec.rel_area)
         nP_comb == NPeak(inp.ec)
     IN  IF nP_tot < nP_comb
           THEN Raise("ValueError: negative dimensions") /\ UNCHANGED peak_info
           ELSE /\ peak_info' =
                     <<[mass |-> [j \in 1..nP_tot |-> inp.ec.rel_area[j] * ugC],
                        d13C |-> RepeatCombined(d13C_peak, nP_tot, nP_comb),
                        Fm |-> RepeatCombined(Fm_peak, nP_tot, nP_comb)]>>
                /\ pc' = After("store_peak")
                /\ exc' = exc
  /\ UNCHANGED <<ctl, extr, cont, fits, fraction_info, RMSEs, alv, lcv>>

StoreRMSEs ==
  /\ pc = "store_rmse"
  /\ RMSEs' = <<[mass |-> mass_rmse, d13C |-> d13C_rmse, Fm |-> Fm_rmse]>>
  /\ pc' = After("store_rmse")
  /\ UNCHANGED <<exc, ctl, extr, cont, fits, fraction_info, peak_info, alv, lcv>>

(* a second construction on the same arguments: a new object *)

Reconstruct ==
  /\ run = 1
  /\ pc \in {"done", "raised"}
  /\ run' = 2
  /\ prev' = <<[fraction_info |-> fraction_info, peak_info |-> peak_info,
                RMSEs |-> RMSEs, exc |-> exc]>>
  /\ pc' = Pipeline[1]
  /\ exc' = "none"
  /\ t0_frac' = <<>> /\ tf_frac' = <<>> /\ mass_frac' = <<>>
  /\ R13_frac' = <<>> /\ Fm_frac' = <<>> /\ err' = <<>>
  /\ tot' = <<>> /\ peaks' = <<>> /\ ind' = <<>> /\ cont_ptf' = <<>>
  /\ ind_min' = <<>> /\ ind_max' = <<>> /\ ind_wgh' = <<>>
  /\ mass_rmse' = <<>> /\ d13C_peak' = <<>> /\ d13C_rmse' = <<>>
  /\ Fm_peak' = <<>> /\ Fm_rmse' = <<>> /\ res_success' = <<>>
  /\ warned' = FALSE
  /\ fraction_info' = <<>> /\ peak_info' = <<>> /\ RMSEs' = <<>>
  /\ UNCHANGED <<inp, lsq_memo, alv, lcv>>

Next ==
  \/ ExtractIsotopes
  \/ BlankCorrect
  \/ StoreFractionInfo
  \/ CalcContPtfSetup
  \/ CalcContPtfLoop
  \/ MassRMSE
  \/ FitR13Peak
  \/ FmRegression
  \/ StorePeakInfo
  \/ StoreRMSEs
  \/ Reconstruct

Spec == Init /\ [][Next]_vars

-----------------------------------------------------------------------------
(* assert_len(data, n).  A number is [ty, v2]: its Python type and twice   *)
(* its value, so that halves are numbers too.                              *)

Num(ty, v2) == [ty |-> ty, v2 |-> v2]

\* .astype(float), and the product with np.ones(n): the value as a float
ToFloat(x) == Num("float", x.v2)

\* int(n), for n >= 0: the fraction is dropped
IntOf(n) == n.v2 \div 2

Data(kind, val, items) == [kind |-> kind, val |-> val, items |-> items]

\* isinstance(data, (int, float)); bool is a subclass of int
IsScalar(data) == data.kind \in {"int", "float", "bool"}

\* isinstance(data, Sequence)
IsSequence(data) == data.kind \in {"list", "tuple", "str"}

\* hasattr(data, '__array__')
HasArray(data) == data.kind = "ndarray"

ArrayOf(items) ==
  [status |-> "ok", array |-> [i \in 1..Len(items) |-> ToFloat(items[i])]]

Failed(error) == [status |-> error, array |-> <<>>]

\* the length compared before the string is refused
AssertLenLengthFirst(data, n) ==
  IF IsScalar(data)
    THEN ArrayOf([i \in 1..IntOf(n) |-> data.val])
  ELSE IF IsSequence(data) \/ HasArray(data)
    THEN IF Len(data.items) # IntOf(n) THEN Failed("LengthError")
         ELSE IF data.kind = "str" THEN Failed("ArrayError")
         ELSE ArrayOf(data.items)
  ELSE Failed("ArrayError")

AssertLen(data, n) ==
  IF IsScalar(data)
    THEN ArrayOf([i \in 1..IntOf(n) |-> data.val])
  ELSE IF IsSequence(data) \/ HasArray(data)
    THEN IF data.kind = "str" THEN Failed("ArrayError")
         ELSE IF Len(data.items) # IntOf(n) THEN Failed("LengthError")
         ELSE ArrayOf(data.items)
  ELSE Failed("ArrayError")

(* the arguments explored *)

NumPool == {Num("int", 2), Num("float", 3)}

SeqsOf(S) == UNION {[1..l -> S] : l \in 0..MaxLen}

ALData ==
  {Data(x.ty, x, <<>>) :
     x \in {Num("int", 0), Num("int", 4), Num("float", 3), Num("bool", 2)}}
    \cup {Data(k, Num("int", 0), it) :
            k \in {"list", "tuple", "ndarray"}, it \in SeqsOf(NumPool)}
    \cup {Data("str", Num("int", 0), it) : it \in SeqsOf({"a"})}
    \cup {Data(k, Num("int", 0), it) :
            k \in {"dict", "set"}, it \in SeqsOf({Num("int", 2)})}
    \cup {Data("NoneType", Num("int", 0), <<>>)}

ALNs ==
  {Num("int", 2 * k) : k \in 0..MaxLen}
    \cup {Num("float", v2) : v2 \in 0..(2 * MaxLen + 1)}

InitAL ==
  /\ inp = MkInp(Table("DataFrame", Required, TRUE, BaseRows(3)), BaseLt,
                 BaseEc(1, 0), FALSE, 0, FALSE)
  /\ run = 1
  /\ prev = <<>>
  /\ lsq_memo = <<>>
  /\ Fresh
  /\ al_pc = "call"
  /\ al_data \in ALData
  /\ al_n \in ALNs
  /\ al_out = [status |-> "none", array |-> <<>>]
  /\ IdleLC

AssertLenCall ==
  /\ al_pc = "call"
  /\ al_out' = AssertLen(al_data, al_n)
  /\ al_pc' = "returned"
  /\ UNCHANGED <<pc, exc, ctl, extr, cont, fits, self, al_data, al_n, lcv>>

NextAL == AssertLenCall

SpecAL == InitAL /\ [][NextAL]_vars

-----------------------------------------------------------------------------
(* calc_L_curve(model, timedata, ax, plot, nOm, om_max, om_min).  An omega  *)
(* is counted in 1/1000.  A keyword the caller leaves out is <<>>, one it   *)
(* passes is <<value>>.                                                     *)

DefaultNOm == 150
DefaultOmMax == 100000
DefaultOmMin == 1

\* the binding of a parameter: the caller's value, or the default
Bound(given, default) == IF given = <<>> THEN default ELSE given[1]

\* the parameters as the body of calc_L_curve sees them
Params(args) ==
  [model |-> args.model,
   timedata |-> args.timedata,
   ax |-> Bound(args.ax, "None"),
   plot |-> Bound(args.plot, FALSE),
   nOm |-> Bound(args.nOm, DefaultNOm),
   om_max |-> Bound(args.om_max, DefaultOmMax),
   om_min |-> Bound(args.om_min, DefaultOmMin)]

\* the call the body makes: model.calc_L_curve(timedata, ax = ..., ...)
MethodCall(p) ==
  [self |-> p.model,
   timedata |-> p.timedata,
   ax |-> p.ax,
   plot |-> p.plot,
   nOm |-> p.nOm,
   om_max |-> p.om_max,
   om_min |-> p.om_max]

\* what the model's method hands back: a function of what it was called with
MethodResult(call) == [om_best |-> call, axis |-> IF call.plot THEN "axis" ELSE "None"]

(* the arguments explored *)

OmPool == {1, 10, 100000}
NOmPool == {2, 150}

LCArgs ==
  [model : {"Daem"},
   timedata : {"RpoThermogram"},
   ax : {<<>>, <<"None">>, <<"axis">>},
   plot : {<<>>, <<FALSE>>, <<TRUE>>},
   nOm : {<<>>} \cup {<<n>> : n \in NOmPool},
   om_max : {<<>>} \cup {<<om>> : om \in OmPool},
   om_min : {<<>>} \cup {<<om>> : om \in OmPool}]

InitLC ==
  /\ inp = MkInp(Table("DataFrame", Required, TRUE, BaseRows(3)), BaseLt,
                 BaseEc(1, 0), FALSE, 0, FALSE)
  /\ run = 1
  /\ prev = <<>>
  /\ lsq_memo = <<>>
  /\ Fresh
  /\ IdleAL
  /\ lc_pc = "call"
  /\ lc_args \in LCArgs
  /\ lc_recv = <<>>
  /\ lc_ret = <<>>

\* the body reaches the method call: the method is entered with its arguments
CalcLCurveForward ==
  /\ lc_pc = "call"
  /\ lc_recv' = <<MethodCall(Params(lc_args))>>
  /\ lc_pc' = "in_method"
  /\ UNCHANGED <<pc, exc, ctl, extr, cont, fits, self, alv, lc_args, lc_ret>>

\* the method returns, and calc_L_curve returns what it returned
CalcLCurveReturn ==
  /\ lc_pc = "in_method"
  /\ lc_ret' = <<MethodResult(lc_recv[1])>>
  /\ lc_pc' = "returned"
  /\ UNCHANGED <<pc, exc, ctl, extr, cont, fits, self, alv, lc_args, lc_recv>>

NextLC == CalcLCurveForward \/ CalcLCurveReturn

SpecLC == InitLC /\ [][NextLC]_vars

-----------------------------------------------------------------------------
(* Properties *)

NPeakIn == NPeak(inp.ec)

\* fractions of the table: its rows minus the two sentinel rows
NFracIn == Len(inp.sum_data.rows) - 2

Returned == pc \in {"done", "raised"}

\* C1 (as amended): with more peaks than fractions the constructor never
\* completes; no rate, contribution or regression is ever computed; and
\* whenever _extract_isotopes has returned (fraction_info is set) the
\* exception raised is the under-constrained ValueError.
C1_UnderConstrainedFails ==
  NPeakIn > NFracIn =>
    /\ pc \in {"extract", "blank", "store_frac", "cont_setup", "raised"}
    /\ tot = <<>> /\ peaks = <<>> /\ cont_ptf = <<>> /\ ind_wgh = <<>>
    /\ res_success = <<>> /\ d13C_peak = <<>> /\ Fm_peak = <<>>
    /\ (pc = "raised" /\ fraction_info # <<>>
          => exc = "ValueError: under constrained")

C1_Witness ==
  /\ NPeakIn > NFracIn
  /\ pc = "raised"
  /\ exc = "ValueError: under constrained"
  /\ fraction_info # <<>>

\* C1 (as claimed): with more peaks than fractions the constructor fails with
\* the under-constrained ValueError, whatever the other arguments (here: on
\* every table of at least one fraction).
C1_AlwaysUnderConstrainedError ==
  (NPeakIn > NFracIn /\ NFracIn >= 1 /\ Returned)
    => (pc = "raised" /\ exc = "ValueError: under constrained")

\* C2 (as claimed): a table that lacks one of the six required columns makes
\* _extract_isotopes raise the missing-columns ValueError (here: on tables
\* that are otherwise well-formed, time-indexed with sentinel rows -1 and 0),
\* so the constructor leaves its first step only by that error.
C2_MissingColumnRejected ==
  (/\ inp.sum_data.kind = "DataFrame"
   /\ inp.sum_data.index_dt
   /\ SentinelCheck(inp.sum_data.rows) = "none"
   /\ ~(Required \subseteq inp.sum_data.columns)
   /\ pc # "extract")
    => (pc = "raised" /\ exc = "ValueError: columns")

\* C3 (as claimed): on strictly increasing timestamps, tf of fraction i is the
\* time elapsed between row i+2 and the first row, t0 the same for row i+1,
\* and t0 < tf.
C3_ElapsedSeconds ==
  LET rows == inp.sum_data.rows
  IN  (\A j \in 1..(Len(rows) - 1) : rows[j].time < rows[j + 1].time) =>
        \A i \in 1..Len(tf_frac) :
          /\ tf_frac[i] = rows[i + 2].time - rows[1].time
          /\ t0_frac[i] = rows[i + 1].time - rows[1].time
          /\ t0_frac[i] < tf_frac[i]

\* the grid indices (0-based) whose time lies in (lo, hi]
GridIn(lo, hi) ==
  {k \in 0..(Len(inp.lt.t) - 1) : lo < inp.lt.t[k + 1] /\ inp.lt.t[k + 1] <= hi}

\* C4: for every fraction the loop has done, the selected indices are exactly
\* those with t0 < t[k] <= tf, ind_min is the least and ind_max the greatest
\* of them; a grid time on the boundary of two fractions is selected by the
\* earlier one only, and no index is selected by two fractions.
C4_WindowSelection ==
  /\ \A i \in 1..Len(ind) :
       /\ Range(ind[i]) = GridIn(t0_frac[i], tf_frac[i])
       /\ ind_min[i] \in Range(ind[i]) /\ ind_max[i] \in Range(ind[i])
       /\ \A k \in Range(ind[i]) : ind_min[i] <= k /\ k <= ind_max[i]
  /\ \A i \in 1..Len(ind) : \A j \in 1..Len(ind) :
       i # j => Range(ind[i]) \cap Range(ind[j]) = {}
  /\ \A i \in 1..(Len(ind) - 1) : \A k \in 0..(Len(inp.lt.t) - 1) :
       inp.lt.t[k + 1] = tf_frac[i]
         => k \in Range(ind[i]) /\ k \notin Range(ind[i + 1])

C4_Witness ==
  /\ Len(ind) >= 2
  /\ tf_frac[1] = t0_frac[2]
  /\ \E k \in Range(ind[1]) : inp.lt.t[k + 1] = tf_frac[1]
  /\ \E k \in 0..(Len(inp.lt.t) - 1) : inp.lt.t[k + 1] = t0_frac[1]

\* the forward-modelled combined curve is the sum of the per-peak curves
CurvesAddUp ==
  \A k \in 1..Len(inp.lt.A) :
    Inner(inp.lt.A, inp.ec.phi_hat)[k]
      = SumSeq([p \in 1..NPeakIn |-> Inner(inp.lt.A, Column(inp.ec.peaks, p))[k]])

\* C5: when the combined curve is the sum of the per-peak curves, every row of
\* the contribution matrix has a non-zero divisor equal to the sum of its
\* numerators: the row sums to 1.
C5_RowSumsToOne ==
  CurvesAddUp =>
    \A i \in 1..Len(cont_ptf) :
      LET row == cont_ptf[i]
      IN  /\ \A p \in 1..Len(row) : row[p][2] = row[1][2] /\ row[p][2] # 0
          /\ SumSeq([p \in 1..Len(row) |-> row[p][1]]) = row[1][2]

C5_Witness ==
  /\ CurvesAddUp
  /\ Len(cont_ptf) >= 2
  /\ NPeakIn = 2
  /\ cont_ptf[2][1][1] # 0 /\ cont_ptf[2][2][1] # 0
  /\ cont_ptf[2][1][1] # cont_ptf[2][2][1]

\* C6: the per-peak table has one row per original peak; row j of the first
\* nP_comb rows carries the fitted d13C and Fm of combined peak j, every later
\* row those of the last combined peak.
C6_PeakTableRows ==
  peak_info # <<>> =>
    LET tab == peak_info[1]
        nP_tot == Len(inp.ec.rel_area)
    IN  /\ Len(tab.mass) = nP_tot /\ Len(tab.d13C) = nP_tot /\ Len(tab.Fm) = nP_tot
        /\ Len(d13C_peak) = NPeakIn /\ Len(Fm_peak) = NPeakIn
        /\ \A j \in 1..nP_tot :
             LET c == IF j <= NPeakIn THEN j ELSE NPeakIn
             IN  /\ tab.d13C[j] = d13C_peak[c] /\ tab.d13C[j].peak = c
                 /\ tab.Fm[j] = Fm_peak[c] /\ tab.Fm[j].peak = c

C6_Witness ==
  /\ pc = "done"
  /\ NPeakIn >= 2
  /\ Len(inp.ec.rel_area) >= NPeakIn + 2
  /\ Len(peak_info[1].d13C) = Len(inp.ec.rel_area)

\* the three outputs of the construction under way
Outputs == [fraction_info |-> fraction_info, peak_info |-> peak_info, RMSEs |-> RMSEs]

\* C7: without add_noise the perturbation of every fraction's mass, d13C and
\* Fm is zero whatever was drawn, and a second construction on the same
\* arguments ends as the first did, with the same three outputs.
C7_NoNoiseDeterministic ==
  ~inp.add_noise =>
    /\ \A i \in 1..Len(err) : err[i] = <<0, 0, 0>>
    /\ (run = 2 /\ Returned) =>
         /\ Outputs = [fraction_info |-> prev[1].fraction_info,
                       peak_info |-> prev[1].peak_info,
                       RMSEs |-> prev[1].RMSEs]
         /\ exc = prev[1].exc

C7_Witness ==
  /\ ~inp.add_noise
  /\ run = 2 /\ pc = "done"
  /\ Len(err) >= 1
  /\ inp.sum_data.rows[3].d13C_std # 0
  /\ inp.mass_rsd # 0
  /\ Outputs.peak_info = prev[1].peak_info

\* C8: after a fit that did not converge a warning has been emitted, the
\* per-peak d13C and the d13C RMSE have been returned, the constructor has not
\* raised and goes on through the Fm regression; once done, all is set.
C8_NonConvergenceWarns ==
  res_success = <<FALSE>> =>
    /\ warned
    /\ Len(d13C_peak) = NPeakIn /\ d13C_rmse # <<>>
    /\ exc = "none"
    /\ pc \in {"fit_Fm", "store_peak", "store_rmse", "done"}
    /\ (pc \in {"store_peak", "store_rmse", "done"} => Fm_peak # <<>>)
    /\ (pc = "done" => peak_info # <<>> /\ RMSEs # <<>> /\ fraction_info # <<>>)

C8_Witness ==
  /\ res_success = <<FALSE>>
  /\ warned
  /\ pc = "done"
  /\ RMSEs # <<>>

\* C9 (as amended): a construction that completes has set all three outputs;
\* one that raised has set neither peak_info nor RMSEs, and has set
\* fraction_info exactly when the exception came after _extract_isotopes
\* (from _calc_cont_ptf or a later step).
C9_NoPeakResultsOnRaise ==
  /\ pc = "done" =>
       fraction_info # <<>> /\ peak_info # <<>> /\ RMSEs # <<>> /\ exc = "none"
  /\ pc = "raised" =>
       /\ exc # "none"
       /\ peak_info = <<>> /\ RMSEs = <<>>
       /\ (fraction_info = <<>> <=> exc \in ExtractErrors)

C9_Witness ==
  /\ pc = "raised"
  /\ fraction_info # <<>>
  /\ exc = "IndexError: empty window"

\* C9 (as claimed): a construction that raised has set none of the outputs.
C9_NothingSetOnRaise ==
  pc = "raised" => fraction_info = <<>> /\ peak_info = <<>> /\ RMSEs = <<>>

\* C10: assert_len(data, n) turns a scalar into n copies of it as floats; an
\* array-like of length n into the float array of its items; fails with
\* LengthError on an array-like of another length; with ArrayError, never
\* LengthError, on a string of any length; with ArrayError on anything else.
C10_AssertLen ==
  al_pc = "returned" =>
    LET n == al_n.v2 \div 2
        k == al_data.kind
        arr == al_out.array
    IN  /\ k \in {"int", "float", "bool"} =>
             /\ al_out.status = "ok" /\ Len(arr) = n
             /\ \A i \in 1..n : arr[i] = [ty |-> "float", v2 |-> al_data.val.v2]
        /\ (k \in {"list", "tuple", "ndarray"} /\ Len(al_data.items) = n) =>
             /\ al_out.status = "ok" /\ Len(arr) = n
             /\ \A i \in 1..n :
                  arr[i] = [ty |-> "float", v2 |-> al_data.items[i].v2]
        /\ (k \in {"list", "tuple", "ndarray"} /\ Len(al_data.items) # n) =>
             al_out.status = "LengthError"
        /\ k = "str" => al_out.status = "ArrayError"
        /\ k \in {"dict", "set", "NoneType"} => al_out.status = "ArrayError"

C10_Witness ==
  /\ al_pc = "returned"
  /\ al_data.kind = "str"
  /\ Len(al_data.items) = 2
  /\ al_n = [ty |-> "float", v2 |-> 7]
  /\ al_out.status = "ArrayError"

\* C11: the model's method is called with the caller's om_min as the minimum
\* omega and the caller's om_max as the maximum omega (1e-3 and 1e2 when left
\* out), with nOm (150 when left out), ax and plot as the caller gave them,
\* and calc_L_curve returns what the method returned.
C11_ForwardsArguments ==
  /\ lc_recv # <<>> =>
       LET got == lc_recv[1]
       IN  /\ got.self = lc_args.model
           /\ got.timedata = lc_args.timedata
           /\ got.om_min = (IF lc_args.om_min = <<>> THEN 1 ELSE lc_args.om_min[1])
           /\ got.om_max = (IF lc_args.om_max = <<>> THEN 100000 ELSE lc_args.om_max[1])
           /\ got.nOm = (IF lc_args.nOm = <<>> THEN 150 ELSE lc_args.nOm[1])
           /\ got.ax = (IF lc_args.ax = <<>> THEN "None" ELSE lc_args.ax[1])
           /\ got.plot = (IF lc_args.plot = <<>> THEN FALSE ELSE lc_args.plot[1])
  /\ lc_pc = "returned" => lc_ret = <<MethodResult(lc_recv[1])>>

\* the fraction's window (t0, tf] holds no point of the time grid
EmptyWindow(i) == GridIn(t0_frac[i], tf_frac[i]) = {}

\* C12: when the window of some fraction holds no grid index, the loop of
\* _calc_cont_ptf never gets past that fraction, the construction never
\* completes, neither regression is attempted, and neither the peak table
\* nor the RMSE summary is set.
C12_EmptyWindowFails ==
  \A i \in 1..Len(t0_frac) :
    EmptyWindow(i) =>
      /\ Len(ind) < i
      /\ pc \in {"blank", "store_frac", "cont_setup", "cont_loop", "raised"}
      /\ res_success = <<>> /\ d13C_peak = <<>> /\ d13C_rmse = <<>>
      /\ Fm_peak = <<>> /\ Fm_rmse = <<>>
      /\ peak_info = <<>> /\ RMSEs = <<>>

C12_Witness ==
  /\ pc = "raised"
  /\ exc = "IndexError: empty window"
  /\ Len(ind) = 1
  /\ EmptyWindow(2)
  /\ ~EmptyWindow(1)

\* the combined rate is non-negative at each index selected for fraction i,
\* and positive at one of them at least
RatesWeigh(i) ==
  /\ \A k \in Range(ind[i]) : tot[k + 1] >= 0
  /\ \E k \in Range(ind[i]) : tot[k + 1] > 0

\* C13: for every fraction done whose combined rate is non-negative at each
\* selected index and positive in sum, ind_min <= ind_wgh <= ind_max and
\* ind_wgh is an index of the time grid; when that is so of every fraction,
\* the R13 residual function reads R13_CO2[ind_wgh] without an index error.
C13_WeightedIndexInWindow ==
  /\ \A i \in 1..Len(ind_wgh) :
       RatesWeigh(i) =>
         /\ ind_min[i] <= ind_wgh[i] /\ ind_wgh[i] <= ind_max[i]
         /\ 0 <= ind_wgh[i] /\ ind_wgh[i] < Len(inp.lt.t)
  /\ (\A i \in 1..Len(ind_wgh) : RatesWeigh(i)) => exc # "IndexError: ind_wgh"

C13_Witness ==
  /\ res_success # <<>>
  /\ \E i \in 1..Len(ind_wgh) :
       /\ RatesWeigh(i)
       /\ Len(ind[i]) >= 3
       /\ ind_min[i] < ind_wgh[i] /\ ind_wgh[i] < ind_max[i]

====
